---- MODULE Spec2Model ----
(***************************************************************************)
(* Kubeflow pipeline notebooks: fraud detection, insurance regression,     *)
(* covid-19 lung classification and fingerprint recognition.               *)
(*                                                                         *)
(* Spec      one run of one of the four pipelines: the step graph each     *)
(*           pipeline function declares, executed by the DAG scheduler,    *)
(*           with every component function reading and writing the files   *)
(*           it names.                                                     *)
(* SpecData  the code inside the notebooks: train/test split, .npz         *)
(*           bundles, the fingerprint DataGenerator and evaluate_model,    *)
(*           the run-submission cell and covid plot_confusion_matrix.      *)
(***************************************************************************)
EXTENDS Integers, Sequences, FiniteSets, TLC

VARIABLES
    pipeline,    \* which pipeline function was submitted
    dataset_ok,  \* the downloaded archive holds the files preprocess_data expects
    status,      \* step -> "pending" | "running" | "succeeded" | "failed"
    pc,          \* step -> position inside the component function
    raised,      \* step -> the exception that ended the function, or "none"
    files,       \* the files that exist: <<artifact, file name>>
    wlog,        \* every write so far: [step, art, file, sealed]
    \* --- the data path of the component functions (SpecData) ---
    mode,        \* "split": preprocess / split / save / reload; "gen": DataGenerator
    nb,          \* the notebook whose functions run
    raw,         \* row id -> the label the input attaches to that row
    cuts,        \* fingerprint: <<len(x_easy), len(x_easy) + len(x_medium)>>
    col,         \* insurance: row id -> the value of a categorical column
    codes,       \* insurance: row id -> that value as LabelEncoder encodes it
    dpc,         \* "raw" | "prep" | "split" | "saved" | "reloaded" | "raised"
    X, y,        \* feature rows (row ids) and labels after preprocessing
    parts,       \* result of train_test_split: [trainX, testX, trainY, testY]
    bundles,     \* file name -> .npz archive: sequence of <<member name, array>>
    loaded,      \* the arrays the consuming function reads back
    \* --- DataGenerator ---
    gen,         \* "train_gen" | "val_gen" (built by train_model) | "default"
    gx, glabel,  \* self.x, self.label
    y_real,      \* labels of the real images; image i is x_real[i]
    label_real_dict,  \* key -> position of the real image with that key
    batch_size,
    gpc,         \* "new" | "idle" | "fill" | "draw" | "returned" | "fault"
    index,       \* argument of __getitem__
    pos,         \* loop variable i of __getitem__ (1-based)
    x1_batch, label_batch, x2_batch, y_batch,
    ref_key,     \* the key of the reference image put at each position
    \* --- fingerprint evaluate_model ---
    ev,          \* its locals: pc, x_val, label_val, y_real, label_real_dict,
                 \* random_idx, random_label, rx, unmatch_key, unmatch_idx
    \* --- the run-submission cell of a notebook ---
    sub,         \* [pc, notebook, arguments, run_id]
    \* --- covid plot_confusion_matrix ---
    cm           \* its locals: pc, testY, predict (what model.predict returns),
                 \* labels, y_true, y_pred, confusion_matrix, the two loop
                 \* indices, data, source (the rows written to the metadata)

pvars == <<pipeline, dataset_ok, status, pc, raised, files, wlog>>

dvars == <<mode, nb, raw, cuts, col, codes, dpc, X, y, parts, bundles, loaded>>

gvars == <<gen, gx, glabel, y_real, label_real_dict, batch_size, gpc, index, pos,
           x1_batch, label_batch, x2_batch, y_batch, ref_key>>

evars == <<ev>>

svars == <<sub>>

cvars == <<cm>>

vars == <<pvars, dvars, gvars, evars, svars, cvars>>

----------------------------------------------------------------------------
(* The four pipeline functions.                                            *)

Pipelines == {"fraud", "insurance", "covid", "fingerprint"}

\* The tasks each pipeline function instantiates.
Steps(p) ==
    IF p \in {"fraud", "insurance"}
    THEN {"download_and_extract", "preprocess_data", "train_model", "evaluate_model"}
    ELSE IF p = "covid"
    THEN {"download_and_extract", "preprocess_data", "traintestsplit_data",
          "train_model", "evaluate_model", "plot_confusion_matrix",
          "convert_model_to_onnx", "upload_model", "deploy_model_with_kserve"}
    ELSE {"download_and_extract", "preprocess_data", "train_model", "evaluate_model",
          "convert_model_to_onnx", "upload_model", "deploy_model_with_kserve"}

\* Steps written in the notebooks (create_component_from_func); the others are
\* reusable components loaded by URL.
ComponentFuncs ==
    {"preprocess_data", "traintestsplit_data", "train_model", "evaluate_model",
     "plot_confusion_matrix"}

W(param, from, out) == [param |-> param, from |-> from, out |-> out]

\* An output of one task passed as an argument of another:
\* param <- from.outputs[out].
Wiring(p, s) ==
    IF s = "preprocess_data"
    THEN {W("data_dir", "download_and_extract", "data_path")}
    ELSE IF s = "traintestsplit_data"
    THEN {W("prep_dir", "preprocess_data", "prep_dir")}
    ELSE IF s = "train_model"
    THEN IF p = "covid"
         THEN {W("traintest_dir", "traintestsplit_data", "traintest_dir")}
         ELSE {W("prep_data_dir", "preprocess_data", "prep_data_dir")}
    ELSE IF s = "evaluate_model"
    THEN IF p = "fraud"
         THEN {W("prep_data_dir", "train_model", "traintest_dir"),
               W("model_dir", "train_model", "model_dir")}
         ELSE IF p = "insurance"
         THEN {W("traintest_dir", "train_model", "traintest_dir"),
               W("model_dir", "train_model", "model_dir")}
         ELSE IF p = "covid"
         THEN {W("traintest_dir", "traintestsplit_data", "traintest_dir"),
               W("model_dir", "train_model", "model_dir")}
         ELSE {W("prep_data_dir", "preprocess_data", "prep_data_dir"),
               W("model_dir", "train_model", "model_dir")}
    ELSE IF s = "plot_confusion_matrix"
    THEN {W("traintest_dir", "traintestsplit_data", "traintest_dir"),
          W("model_dir", "train_model", "model_dir")}
    ELSE IF s = "convert_model_to_onnx"
    THEN {W("model_dir", "train_model", "model_dir")}
    ELSE IF s = "upload_model"
    THEN {W("file_dir", "convert_model_to_onnx", "output")}
    ELSE {}

PA(param, name) == [param |-> param, name |-> name]

\* a task that is handed the data_dir parameter of the pipeline
PassedDirs(p, s) == {PA("data_dir", "data_dir")}

\* A parameter of the pipeline function passed as an argument of a task:
\* param <- name.
Passed(p, s) ==
    IF s = "download_and_extract"
    THEN {PA("url", "dataset_url"), PA("file_name", "dataset_file_name")}
    ELSE IF s = "traintestsplit_data"
    THEN {PA("file_name", "dataset_file_name")}
    ELSE IF s = "plot_confusion_matrix"
    THEN {PA("labels", "labels")}
    ELSE IF s = "upload_model"
    THEN {PA("minio_url", "minio_url"), PA("minio_user", "minio_user"),
          PA("minio_pass", "minio_pass"), PA("model_name", "model_name")}
    ELSE IF s = "deploy_model_with_kserve"
    THEN {PA("model_name", "model_name")}
    ELSE {}

\* Explicit ordering edges: task.after(other).
AfterNone(p, s) == {}

After(p, s) ==
    IF s = "deploy_model_with_kserve" /\ p \in {"covid", "fingerprint"}
    THEN {"upload_model"}
    ELSE {}

\* The tasks whose outputs a task takes as inputs.
DataDeps(p, s) == {w.from : w \in Wiring(p, s)}

\* The dependencies of a task in the compiled graph.
DepsAfterOnly(p, s) == After(p, s)

Deps(p, s) == DataDeps(p, s) \cup After(p, s)

\* The parameters of each pipeline function that name a directory.
DirParams(p) ==
    IF p = "covid" THEN {"data_dir", "prep_dir", "traintest_dir", "model_dir"}
    ELSE {"data_dir", "prep_data_dir", "model_dir"}

\* The parameters of each pipeline function.
PipelineParams(p) ==
    {"dataset_url", "dataset_file_name", "model_name", "minio_url", "minio_user",
     "minio_pass"}
    \cup DirParams(p) \cup (IF p = "covid" THEN {"labels"} ELSE {})

\* What the pipeline function, called with the arguments a, hands a task:
\* values of its own parameters and outputs of other tasks.
Handed(p, s, a) ==
    {<<pa.param, "argument", a[pa.name]>> : pa \in Passed(p, s)}
    \cup {<<w.param, w.from, w.out>> : w \in Wiring(p, s)}

\* The step graph the pipeline function builds when called with a.
Graph(p, a) ==
    [s \in Steps(p) |-> [deps |-> Deps(p, s), inputs |-> Handed(p, s, a)]]

----------------------------------------------------------------------------
(* The component functions: the files each loads at its top, and the files *)
(* each writes, in statement order, named by the parameter the path is     *)
(* built from.                                                             *)

\* The files the downloaded archive must hold for preprocess_data to load it.
DatasetFiles(p) ==
    IF p = "fraud" THEN {"card_transdata_big.csv"}
    ELSE IF p = "insurance" THEN {"insurance.csv"}
    ELSE IF p = "covid" THEN {"covid", "normal"}
    ELSE {"x_real.npz", "y_real.npy", "x_easy.npz", "y_easy.npy",
          "x_medium.npz", "y_medium.npy", "x_hard.npz", "y_hard.npy"}

Reads(p, s) ==
    IF s = "preprocess_data"
    THEN IF p = "covid" THEN {}   \* paths.list_images walks whatever is there
         ELSE {<<"data_dir", f>> : f \in DatasetFiles(p)}
    ELSE IF s = "traintestsplit_data"
    THEN {<<"prep_dir", "data.npz">>}
    ELSE IF s = "train_model"
    THEN IF p = "fraud" THEN {<<"prep_data_dir", "df.pkl">>}
         ELSE IF p = "insurance" THEN {<<"prep_data_dir", "insurancedf.pkl">>}
         ELSE IF p = "covid"
         THEN {<<"traintest_dir", "train_data.npz">>, <<"traintest_dir", "val_data.npz">>}
         ELSE {<<"prep_data_dir", "train_data.npz">>, <<"prep_data_dir", "val_data.npz">>,
               <<"prep_data_dir", "real_data.npz">>}
    ELSE IF s = "evaluate_model"
    THEN IF p = "fraud"
         THEN {<<"prep_data_dir", "val_data.npz">>, <<"model_dir", "trained_model.sav">>}
         ELSE IF p = "insurance"
         THEN {<<"traintest_dir", "val_data.npz">>, <<"model_dir", "finalized_model.sav">>}
         ELSE IF p = "covid"
         THEN {<<"traintest_dir", "val_data.npz">>, <<"model_dir", "saved_model">>}
         ELSE {<<"prep_data_dir", "val_data.npz">>, <<"prep_data_dir", "real_data.npz">>,
               <<"model_dir", "saved_model">>}
    ELSE IF s = "plot_confusion_matrix"
    THEN {<<"traintest_dir", "val_data.npz">>, <<"model_dir", "saved_model">>}
    ELSE {}

\* The np.savez / pickle.dump / to_pickle / model.save / open(.., 'w') statements
\* of each function, in order.
WritesOf(p, s) ==
    IF s = "preprocess_data"
    THEN IF p = "fraud" THEN << <<"prep_data_dir", "df.pkl">> >>
         ELSE IF p = "insurance" THEN << <<"prep_data_dir", "insurancedf.pkl">> >>
         ELSE IF p = "covid" THEN << <<"prep_dir", "data.npz">> >>
         ELSE << <<"prep_data_dir", "train_data.npz">>, <<"prep_data_dir", "val_data.npz">>,
                 <<"prep_data_dir", "real_data.npz">> >>
    ELSE IF s = "traintestsplit_data"
    THEN << <<"traintest_dir", "train_data.npz">>, <<"traintest_dir", "val_data.npz">> >>
    ELSE IF s = "train_model"
    THEN IF p = "fraud"
         THEN << <<"model_dir", "trained_model.sav">>, <<"traintest_dir", "train_data.npz">>,
                 <<"traintest_dir", "val_data.npz">> >>
         ELSE IF p = "insurance"
         THEN << <<"traintest_dir", "train_data.npz">>, <<"traintest_dir", "val_data.npz">>,
                 <<"model_dir", "finalized_model.sav">> >>
         ELSE << <<"model_dir", "saved_model">> >>
    ELSE IF s = "plot_confusion_matrix"
    THEN << <<"mlpipeline_ui_metadata_path", "metadata.json">> >>
    ELSE << >>

WritesIntoInput(p, s) ==
    IF s = "traintestsplit_data"
    THEN << <<"prep_dir", "train_data.npz">>, <<"prep_dir", "val_data.npz">> >>
    ELSE WritesOf(p, s)

\* a train_model that names its validation bundle test_data.npz
WritesTestData(p, s) ==
    [k \in DOMAIN WritesOf(p, s) |->
        IF s = "train_model" /\ WritesOf(p, s)[k][2] = "val_data.npz"
        THEN <<WritesOf(p, s)[k][1], "test_data.npz">>
        ELSE WritesOf(p, s)[k]]

Writes(p, s) == WritesOf(p, s)

\* The write statement of a function that names a variable defined nowhere
\* (0: none).  Fingerprint preprocess_data passes laWhatWhatbel_train to its
\* first np.savez.
UndefinedNameAt(p, s) ==
    IF p = "fingerprint" /\ s = "preprocess_data" THEN 1 ELSE 0

\* What a reusable component leaves behind when it completes.
ComponentOutput(p, s, ok) ==
    IF s = "download_and_extract"
    THEN {<<"data_path", f>> : f \in (IF ok THEN DatasetFiles(p) ELSE {"unexpected"})}
    ELSE IF s = "convert_model_to_onnx" THEN {<<"output", "model.onnx">>}
    ELSE IF s = "upload_model" THEN {<<"Output", "model_name">>}
    ELSE {}

\* The artifact a path parameter of a task resolves to: the producer's output
\* for a wired input, the task's own output otherwise.
PathOf(p, s, param) ==
    IF \E w \in Wiring(p, s) : w.param = param
    THEN LET w == CHOOSE w \in Wiring(p, s) : w.param = param IN <<w.from, w.out>>
    ELSE <<s, param>>

\* No component function catches anything: an exception fails the step.
OutcomeSwallowed(cause) == "succeeded"

Outcome(cause) == IF cause = "none" THEN "succeeded" ELSE "failed"

----------------------------------------------------------------------------
(* Arrays, train_test_split and .npz archives.                             *)

MaxRows == 4    \* rows of an input table

Range(f) == {f[i] : i \in DOMAIN f}

Ceil(a, b) == (a + b - 1) \div b

\* arr[idx]: the rows of arr at the positions idx, in that order
Take(arr, idx) == [i \in 1..Len(idx) |-> arr[idx[i]]]

Perms(n) == {f \in [1..n -> 1..n] : Range(f) = 1..n}

\* test_size of each train_test_split call, as <<numerator, denominator>>
TestSizeHalf(n) == <<1, 2>>

TestSize(n) ==
    IF n = "fraud" THEN <<1, 5>>          \* test_size=0.2
    ELSE IF n = "covid" THEN <<2, 5>>     \* test_size=0.40
    ELSE IF n = "insurance" THEN <<3, 10>> \* test_size=0.3
    ELSE <<1, 10>>                         \* test_size=0.1

\* only the covid split passes stratify=labels
Stratified(n) == n = "covid"

\* n_test = ceil(test_size * n_samples); n_train = n_samples - n_test
NTest(n, ratio) == Ceil(ratio[1] * n, ratio[2])

NTrain(n, ratio) == n - NTest(n, ratio)

ClassesOf(labels) == Range(labels)

ClassCount(labels, c) == Cardinality({i \in DOMAIN labels : labels[i] = c})

SumOver(a, S) ==
    LET RECURSIVE sum(_)
        sum(T) == IF T = {} THEN 0
                  ELSE LET c == CHOOSE c \in T : TRUE IN a[c] + sum(T \ {c})
    IN sum(S)

\* _approximate_mode: the share of each class in a draw of k rows, rounded
\* down, the remaining rows going to the classes with the largest remainders
\* (ties broken at random)
Allocations(labels, k) ==
    LET n == Len(labels)
        C == ClassesOf(labels)
        lo(c) == (ClassCount(labels, c) * k) \div n
        rem(c) == (ClassCount(labels, c) * k) % n
    IN {a \in [C -> 0..k] :
          \E S \in SUBSET C :
              /\ \A c \in C : a[c] = lo(c) + (IF c \in S THEN 1 ELSE 0)
              /\ SumOver(a, C) = k
              /\ \A c \in S, d \in C \ S : rem(c) >= rem(d)}

\* train_test_split raises ValueError instead of returning
SplitRaises(labels, ratio, stratify) ==
    LET n == Len(labels) IN
    \/ NTrain(n, ratio) = 0
    \/ /\ stratify
       /\ \/ \E c \in ClassesOf(labels) : ClassCount(labels, c) < 2
          \/ NTrain(n, ratio) < Cardinality(ClassesOf(labels))
          \/ NTest(n, ratio) < Cardinality(ClassesOf(labels))

\* a split that draws each part with replacement
SplitIndicesWithReplacement(labels, ratio, stratify) ==
    LET n == Len(labels)
        nt == NTest(n, ratio)
    IN {<<tr, te>> : tr \in [1..(n - nt) -> 1..n], te \in [1..nt -> 1..n]}

\* The index pairs <<train, test>> train_test_split may draw: a permutation cut
\* after n_test; with stratify the classes keep their shares.
SplitIndices(labels, ratio, stratify) ==
    LET n == Len(labels)
        nt == NTest(n, ratio)
    IN {<<SubSeq(f, nt + 1, n), SubSeq(f, 1, nt)>> : f \in
          {g \in Perms(n) :
             stratify =>
               \E a \in Allocations(labels, n - nt) :
                  \A c \in DOMAIN a :
                      Cardinality({i \in (nt + 1)..n : labels[g[i]] = c}) = a[c]}}

\* np.savez(file, a, b): members arr_0, arr_1 in argument order
Savez(a, b) == << <<"arr_0", a>>, <<"arr_1", b>> >>

\* np.savez(file, data=a, labels=b)
SavezKw(ka, a, kb, b) == << <<ka, a>>, <<kb, b>> >>

\* npz.files
NpzFiles(npz) == [i \in 1..Len(npz) |-> npz[i][1]]

\* npz[name]
NpzGet(npz, name) == (CHOOSE m \in Range(npz) : m[1] = name)[2]

\* npz[npz.files[k]], k counted from 0 as in the notebooks
NpzAt(npz, k) == NpzGet(npz, NpzFiles(npz)[k + 1])

----------------------------------------------------------------------------
(* Preprocessing, splitting, saving and reloading, per notebook.           *)

\* the labels an input row can carry: the parent directory of an image file
\* (covid), the label column or label array otherwise
RawLabels(n) == IF n = "covid" THEN {"covid", "normal", "other"} ELSE {0, 1}

\* a filter that keeps the covid directory only
QualifiesCovidOnly(label) == label = "covid"

\* covid preprocess_data keeps the files under a directory covid or normal
Qualifies(label) == label = "covid" \/ label = "normal"

\* the positions of the rows the covid filter keeps, in input order
Kept(r) ==
    LET RECURSIVE sel(_)
        sel(k) == IF k = 0 THEN << >>
                  ELSE IF Qualifies(r[k]) THEN Append(sel(k - 1), k) ELSE sel(k - 1)
    IN sel(Len(r))

Ids(n) == [i \in 1..n |-> i]

\* LabelBinarizer().fit_transform followed by to_categorical: classes sorted,
\* two classes give 0/1 then a one-hot row, a single class gives the row (1)
Encode(c, present) ==
    IF present = {"covid", "normal"}
    THEN IF c = "covid" THEN <<1, 0>> ELSE <<0, 1>>
    ELSE <<1>>

\* the values a categorical column of insurance.csv takes (smoker), sorted
Categories == <<"no", "yes">>

\* the classes LabelEncoder.fit finds: the distinct values, sorted
Classes(c) ==
    LET RECURSIVE sel(_)
        sel(k) == IF k = 0 THEN << >>
                  ELSE IF Categories[k] \in Range(c)
                       THEN Append(sel(k - 1), Categories[k]) ELSE sel(k - 1)
    IN sel(Len(Categories))

\* an encoder that numbers the classes from 1
LabelEncoderFromOne(c) ==
    [i \in DOMAIN c |-> CHOOSE k \in 1..Len(Classes(c)) : Classes(c)[k] = c[i]]

\* LabelEncoder().fit_transform(c): each value becomes its position, counted
\* from 0, among the classes
LabelEncoder(c) ==
    [i \in DOMAIN c |-> (CHOOSE k \in 1..Len(Classes(c)) : Classes(c)[k] = c[i]) - 1]

\* the rows and labels a notebook's preprocessing hands to its split
PrepX(n, r, c) ==
    IF n = "covid" THEN Take(Ids(Len(r)), Kept(r))
    ELSE IF n = "fingerprint"
    THEN SubSeq(Ids(Len(r)), 1, c[1]) \o SubSeq(Ids(Len(r)), c[1] + 1, c[2])
           \o SubSeq(Ids(Len(r)), c[2] + 1, Len(r))
    ELSE Ids(Len(r))

PrepY(n, r, c) ==
    IF n = "covid"
    THEN LET kept == Take(r, Kept(r))
         IN [i \in 1..Len(kept) |-> Encode(kept[i], Range(kept))]
    ELSE IF n = "fingerprint"
    THEN SubSeq(r, 1, c[1]) \o SubSeq(r, c[1] + 1, c[2]) \o SubSeq(r, c[2] + 1, Len(r))
    ELSE r

\* covid: LabelBinarizer.fit raises on an empty label array
PrepRaises(n, r) == n = "covid" /\ \A i \in DOMAIN r : ~Qualifies(r[i])

EmptyParts == [trainX |-> << >>, testX |-> << >>, trainY |-> << >>, testY |-> << >>]

Preprocess ==
    /\ mode = "split"
    /\ dpc = "raw"
    /\ IF PrepRaises(nb, raw)
       THEN dpc' = "raised" /\ UNCHANGED <<codes, X, y, bundles>>
       ELSE /\ dpc' = "prep"
            /\ codes' = IF nb = "insurance" THEN LabelEncoder(col) ELSE codes
            /\ X' = PrepX(nb, raw, cuts)
            /\ y' = PrepY(nb, raw, cuts)
            /\ bundles' = IF nb = "covid"
                          THEN ("data.npz" :> SavezKw("data", X', "labels", y'))
                          ELSE bundles
    /\ UNCHANGED <<mode, nb, raw, cuts, col, parts, loaded>>

\* the arrays the split works on: covid reloads them by name from data.npz
SplitX == IF nb = "covid" THEN NpzGet(bundles["data.npz"], "data") ELSE X

SplitY == IF nb = "covid" THEN NpzGet(bundles["data.npz"], "labels") ELSE y

TrainTestSplit ==
    /\ mode = "split"
    /\ dpc = "prep"
    /\ IF SplitRaises(SplitY, TestSize(nb), Stratified(nb))
       THEN dpc' = "raised" /\ parts' = parts
       ELSE /\ dpc' = "split"
            /\ \E ix \in SplitIndices(SplitY, TestSize(nb), Stratified(nb)) :
                 parts' = [trainX |-> Take(SplitX, ix[1]), testX |-> Take(SplitX, ix[2]),
                           trainY |-> Take(SplitY, ix[1]), testY |-> Take(SplitY, ix[2])]
    /\ UNCHANGED <<mode, nb, raw, cuts, col, codes, X, y, bundles, loaded>>

\* np.savez of train_data.npz and val_data.npz; the fingerprint notebook names
\* laWhatWhatbel_train in the first call and raises NameError before writing
SaveBundles ==
    /\ mode = "split"
    /\ dpc = "split"
    /\ IF UndefinedNameAt(nb, "preprocess_data") = 1
       THEN dpc' = "raised" /\ bundles' = bundles
       ELSE /\ dpc' = "saved"
            /\ bundles' = ("train_data.npz" :> Savez(parts.trainX, parts.trainY))
                          @@ ("val_data.npz" :> Savez(parts.testX, parts.testY))
                          @@ bundles
    /\ UNCHANGED <<mode, nb, raw, cuts, col, codes, X, y, parts, loaded>>

\* the consuming function reads the bundles back by position
Reload ==
    /\ mode = "split"
    /\ dpc = "saved"
    /\ dpc' = "reloaded"
    /\ loaded' = [trainX |-> NpzAt(bundles["train_data.npz"], 0),
                  trainY |-> NpzAt(bundles["train_data.npz"], 1),
                  testX |-> NpzAt(bundles["val_data.npz"], 0),
                  testY |-> NpzAt(bundles["val_data.npz"], 1)]
    /\ UNCHANGED <<mode, nb, raw, cuts, col, codes, X, y, parts, bundles>>

InitSplit ==
    /\ mode = "split"
    /\ nb \in Pipelines
    /\ \E n \in 0..MaxRows :
         /\ raw \in [1..n -> RawLabels(nb)]
         /\ cuts \in IF nb = "fingerprint"
                     THEN {c \in (0..n) \X (0..n) : c[1] <= c[2]}
                     ELSE {<<0, 0>>}
         /\ col \in IF nb = "insurance" THEN [1..n -> Range(Categories)] ELSE {<< >>}
    /\ codes = << >>
    /\ dpc = "raw"
    /\ X = << >>
    /\ y = << >>
    /\ parts = EmptyParts
    /\ bundles = << >>
    /\ loaded = EmptyParts

SplitIdle ==
    /\ nb = "none"
    /\ raw = << >>
    /\ cuts = <<0, 0>>
    /\ col = << >>
    /\ codes = << >>
    /\ dpc = "none"
    /\ X = << >>
    /\ y = << >>
    /\ parts = EmptyParts
    /\ bundles = << >>
    /\ loaded = EmptyParts

GenIdle ==
    /\ gen = "none"
    /\ gx = << >>
    /\ glabel = << >>
    /\ y_real = << >>
    /\ label_real_dict = << >>
    /\ batch_size = 0
    /\ gpc = "none"
    /\ index = 0
    /\ pos = 0
    /\ x1_batch = << >>
    /\ label_batch = << >>
    /\ x2_batch = << >>
    /\ y_batch = << >>
    /\ ref_key = << >>

----------------------------------------------------------------------------
(* The fingerprint DataGenerator of train_model.                           *)

MaxN == 3       \* probe images handed to a generator
MaxReal == 2    \* real images

\* batch sizes tried (the constructor's default, which train_model uses, is 16)
BatchSizes == {1, 2}

\* labels [subject_id, gender, left_right, finger]
LabelPool == {<<34, 0, 1, 0>>, <<100, 1, 0, 3>>}

\* str(n) as its decimal digits
Digits(n) ==
    LET RECURSIVE dig(_)
        dig(k) == IF k < 10 THEN <<k>> ELSE Append(dig(k \div 10), k % 10)
    IN dig(n)

\* ''.join(l.astype(str))
Join(l) ==
    LET RECURSIVE cat(_)
        cat(k) == IF k = 0 THEN << >> ELSE cat(k - 1) \o Digits(l[k])
    IN cat(Len(l))

\* s.zfill(w)
Zfill(s, w) == [i \in 1..(IF Len(s) >= w THEN Len(s) ELSE w) |->
                  IF Len(s) >= w THEN s[i]
                  ELSE IF i <= w - Len(s) THEN 0 ELSE s[i - (w - Len(s))]]

Key(l) == Zfill(Join(l), 6)

\* for i, y in enumerate(y_real): label_real_dict[key(y)] = i
BuildDict(yr) ==
    LET RECURSIVE upto(_)
        upto(k) == IF k = 0 THEN << >>
                   ELSE LET d == upto(k - 1)
                        IN [key \in DOMAIN d \cup {Key(yr[k])} |->
                              IF key = Key(yr[k]) THEN k ELSE d[key]]
    IN upto(Len(yr))

\* a slot of np.empty that nothing has assigned: it holds no real image
\* (real images are numbered from 1)
Uninit == 0

\* every generator built with shuffle=True
ShuffleAlways(g) == TRUE

\* the shuffle argument each generator is built with; "default" is the
\* constructor's default, shuffle=True
Shuffle(g) == g \notin {"train_gen", "val_gen"}

\* a length that counts a partial last batch
GenLenCeil == (Len(gx) + batch_size - 1) \div batch_size

\* __len__
GenLen == Len(gx) \div batch_size

\* a[:hi], a slice that forgets its lower end
SliceFromStart(a, lo, hi) ==
    LET h == IF hi > Len(a) THEN Len(a) ELSE hi
    IN IF h <= 0 THEN << >> ELSE SubSeq(a, 1, h)

\* a[lo:hi] of Python, lo and hi counted from 0 and clamped to the array
Slice(a, lo, hi) ==
    LET l == IF lo > Len(a) THEN Len(a) ELSE lo
        h == IF hi > Len(a) THEN Len(a) ELSE hi
    IN IF h <= l THEN << >> ELSE SubSeq(a, l + 1, h)

\* a shuffle that permutes the first array only
ShuffleFeaturesOnly(a, b, perm) == <<Take(a, perm), b>>

\* sklearn.utils.shuffle(a, b): one permutation applied to both arrays
ShuffleBoth(a, b, perm) == <<Take(a, perm), Take(b, perm)>>

\* the rejection test of the unmatched branch
AcceptsAny(unmatch_key, match_key) == TRUE

Accepts(unmatch_key, match_key) == unmatch_key # match_key

NoBatch ==
    /\ index' = 0
    /\ pos' = 0
    /\ x1_batch' = << >>
    /\ label_batch' = << >>
    /\ x2_batch' = << >>
    /\ y_batch' = << >>
    /\ ref_key' = << >>

\* on_epoch_end, also called at the end of __init__
OnEpochEnd ==
    /\ mode = "gen"
    /\ gpc \in {"new", "idle", "returned"}
    /\ gpc' = "idle"
    /\ IF Shuffle(gen)
       THEN \E perm \in Perms(Len(gx)) :
              /\ gx' = ShuffleBoth(gx, glabel, perm)[1]
              /\ glabel' = ShuffleBoth(gx, glabel, perm)[2]
       ELSE UNCHANGED <<gx, glabel>>
    /\ NoBatch
    /\ UNCHANGED <<gen, y_real, label_real_dict, batch_size>>

\* __getitem__(idx), up to the loop: the two slices, the empty reference
\* array, the zero labels and, when self.shuffle, the augmentation
GetItemBegin ==
    /\ mode = "gen"
    /\ gpc \in {"idle", "returned"}
    /\ \E idx \in 0..GenLen :
         /\ index' = idx
         /\ x1_batch' = LET s == Slice(gx, idx * batch_size, (idx + 1) * batch_size)
                        IN [j \in 1..Len(s) |-> [src |-> s[j], aug |-> Shuffle(gen)]]
         /\ label_batch' = Slice(glabel, idx * batch_size, (idx + 1) * batch_size)
    /\ x2_batch' = [j \in 1..batch_size |-> Uninit]
    /\ y_batch' = [j \in 1..batch_size |-> 0]
    /\ ref_key' = [j \in 1..batch_size |-> << >>]
    /\ pos' = 1
    /\ gpc' = "fill"
    /\ UNCHANGED <<gen, gx, glabel, y_real, label_real_dict, batch_size>>

MatchKey == Key(label_batch[pos])

\* loop body, random.random() > 0.5: the matched image
PutMatched ==
    /\ mode = "gen"
    /\ gpc = "fill"
    /\ pos <= Len(label_batch)
    /\ IF MatchKey \in DOMAIN label_real_dict
       THEN /\ x2_batch' = [x2_batch EXCEPT ![pos] = label_real_dict[MatchKey]]
            /\ y_batch' = [y_batch EXCEPT ![pos] = 1]
            /\ ref_key' = [ref_key EXCEPT ![pos] = MatchKey]
            /\ pos' = pos + 1
            /\ gpc' = gpc
       ELSE /\ gpc' = "fault"     \* KeyError
            /\ UNCHANGED <<x2_batch, y_batch, ref_key, pos>>
    /\ UNCHANGED <<gen, gx, glabel, y_real, label_real_dict, batch_size,
                   index, x1_batch, label_batch>>

\* loop body, else branch: one draw of random.choice inside `while True`
\* (gpc = "draw": a draw has been rejected and the loop draws again); a draw
\* of the probe's own key is rejected, any other key leaves the loop
PutUnmatched ==
    /\ mode = "gen"
    /\ gpc \in {"fill", "draw"}
    /\ pos <= Len(label_batch)
    /\ \E unmatch_key \in DOMAIN label_real_dict :
         IF Accepts(unmatch_key, MatchKey)
         THEN /\ x2_batch' = [x2_batch EXCEPT ![pos] = label_real_dict[unmatch_key]]
              /\ y_batch' = [y_batch EXCEPT ![pos] = 0]
              /\ ref_key' = [ref_key EXCEPT ![pos] = unmatch_key]
              /\ pos' = pos + 1
              /\ gpc' = "fill"
         ELSE /\ gpc' = "draw"
              /\ UNCHANGED <<x2_batch, y_batch, ref_key, pos>>
    /\ UNCHANGED <<gen, gx, glabel, y_real, label_real_dict, batch_size,
                   index, x1_batch, label_batch>>

\* return [x1_batch, x2_batch], y_batch
GetItemReturn ==
    /\ mode = "gen"
    /\ gpc = "fill"
    /\ pos > Len(label_batch)
    /\ gpc' = "returned"
    /\ UNCHANGED <<gen, gx, glabel, y_real, label_real_dict, batch_size,
                   index, pos, x1_batch, label_batch, x2_batch, y_batch, ref_key>>

\* train_model has loaded the bundles and built label_real_dict
InitGen ==
    /\ mode = "gen"
    /\ nb = "fingerprint"
    /\ gen \in {"train_gen", "val_gen", "default"}
    /\ \E n \in 0..MaxN :
         /\ raw \in [1..n -> LabelPool]
         /\ gx = Ids(n)
    /\ glabel = raw
    /\ \E m \in 1..MaxReal : y_real \in [1..m -> LabelPool]
    /\ label_real_dict = BuildDict(y_real)
    /\ batch_size \in BatchSizes
    /\ gpc = "new"
    /\ index = 0
    /\ pos = 0
    /\ x1_batch = << >>
    /\ label_batch = << >>
    /\ x2_batch = << >>
    /\ y_batch = << >>
    /\ ref_key = << >>
    /\ cuts = <<0, 0>>
    /\ col = << >>
    /\ codes = << >>
    /\ dpc = "none"
    /\ X = << >>
    /\ y = << >>
    /\ parts = EmptyParts
    /\ bundles = << >>
    /\ loaded = EmptyParts

----------------------------------------------------------------------------
(* Fingerprint evaluate_model.                                             *)

NoEval ==
    [pc |-> "none", x_val |-> << >>, label_val |-> << >>, y_real |-> << >>,
     label_real_dict |-> << >>, random_idx |-> 0, random_label |-> << >>,
     rx |-> 0, unmatch_key |-> << >>, unmatch_idx |-> 0]

EvalIdle == ev = NoEval

\* a dictionary that keeps the first position of each key
EvalDictFirst(yr) ==
    [key \in {Key(yr[i]) : i \in DOMAIN yr} |->
        CHOOSE i \in DOMAIN yr :
            Key(yr[i]) = key /\ \A j \in DOMAIN yr : Key(yr[j]) = key => i <= j]

\* evaluate_model's label_real_dict: every key of y_real, each bound to the
\* last position that assigned it
EvalDict(yr) ==
    [key \in {Key(yr[i]) : i \in DOMAIN yr} |->
        CHOOSE i \in DOMAIN yr :
            Key(yr[i]) = key /\ \A j \in DOMAIN yr : Key(yr[j]) = key => j <= i]

\* random.randint(a, b): any integer N with a <= N <= b
RandInt(a, b) == a..b

\* np.load of val_data.npz and real_data.npz, then the dictionary
EvalLoad ==
    /\ mode = "eval"
    /\ ev.pc = "start"
    /\ ev' = [ev EXCEPT !.pc = "loaded", !.label_real_dict = EvalDict(ev.y_real)]

\* random_idx = random.randint(0, len(x_val)); x_val[random_idx] and
\* label_val[random_idx] raise IndexError past the end
EvalDraw ==
    /\ mode = "eval"
    /\ ev.pc = "loaded"
    /\ \E r \in RandInt(0, Len(ev.x_val)) :
         IF r + 1 \in DOMAIN ev.x_val
         THEN ev' = [ev EXCEPT !.pc = "probe", !.random_idx = r,
                               !.random_label = ev.label_val[r + 1]]
         ELSE ev' = [ev EXCEPT !.pc = "index_error", !.random_idx = r]

\* matched image: x_real[label_real_dict[match_key]]; KeyError if no real
\* image has the probe's key
EvalMatched ==
    /\ mode = "eval"
    /\ ev.pc = "probe"
    /\ IF Key(ev.random_label) \in DOMAIN ev.label_real_dict
       THEN ev' = [ev EXCEPT !.pc = "matched",
                             !.rx = ev.label_real_dict[Key(ev.random_label)]]
       ELSE ev' = [ev EXCEPT !.pc = "key_error"]

\* unmatched image: random.choice(list(label_real_dict.items()))
EvalUnmatched ==
    /\ mode = "eval"
    /\ ev.pc = "matched"
    /\ \E k \in DOMAIN ev.label_real_dict :
         ev' = [ev EXCEPT !.pc = "done", !.unmatch_key = k,
                          !.unmatch_idx = ev.label_real_dict[k]]

\* evaluate_model entered after train_model built its dictionary from the
\* same real_data.npz
InitEval ==
    /\ mode = "eval"
    /\ nb = "fingerprint"
    /\ \E m \in 1..MaxReal : y_real \in [1..m -> LabelPool]
    /\ label_real_dict = BuildDict(y_real)
    /\ \E n \in 0..MaxN : \E lv \in [1..n -> LabelPool] :
         ev = [NoEval EXCEPT !.pc = "start", !.x_val = Ids(n), !.label_val = lv,
                             !.y_real = y_real]
    /\ raw = << >>
    /\ cuts = <<0, 0>>
    /\ col = << >>
    /\ codes = << >>
    /\ dpc = "none"
    /\ X = << >>
    /\ y = << >>
    /\ parts = EmptyParts
    /\ bundles = << >>
    /\ loaded = EmptyParts
    /\ gen = "none"
    /\ gx = << >>
    /\ glabel = << >>
    /\ batch_size = 0
    /\ gpc = "none"
    /\ index = 0
    /\ pos = 0
    /\ x1_batch = << >>
    /\ label_batch = << >>
    /\ x2_batch = << >>
    /\ y_batch = << >>
    /\ ref_key = << >>

----------------------------------------------------------------------------
(* Covid plot_confusion_matrix.                                            *)

\* most validation samples a call is given
MaxVal == 3

\* rows of testY (one-hot) and rows model.predict can return for two classes
OneHot == {<<1, 0>>, <<0, 1>>}

Scores == {<<2, 1>>, <<1, 2>>, <<1, 1>>}

\* the values of the labels parameter: none, one or both names of LABELS
LabelLists == {<< >>, <<"Covid">>, <<"Covid", "Normal">>}

\* np.argmax of one row: the first position of the largest entry, from 0
ArgMaxRow(r) ==
    (CHOOSE i \in DOMAIN r :
        /\ \A j \in DOMAIN r : r[j] <= r[i]
        /\ \A j \in DOMAIN r : r[j] = r[i] => i <= j) - 1

\* np.argmax(a, axis=1)
ArgMax(a) == [i \in DOMAIN a |-> ArgMaxRow(a[i])]

\* a set of integers in ascending order
SortedSeq(S) ==
    LET RECURSIVE srt(_)
        srt(T) == IF T = {} THEN << >>
                  ELSE LET mx == CHOOSE v \in T : \A w \in T : w <= v
                       IN Append(srt(T \ {mx}), mx)
    IN srt(S)

\* a confusion matrix over both classes, whether they occur or not
ConfusionMatrixFull(y_true, y_pred) ==
    [t \in 1..2 |-> [p \in 1..2 |->
        Cardinality({i \in DOMAIN y_true : y_true[i] = t - 1 /\ y_pred[i] = p - 1})]]

\* sklearn.metrics.confusion_matrix(y_true, y_pred) with labels=None: rows
\* and columns are the classes that occur in y_true or y_pred, ascending
ConfusionMatrix(y_true, y_pred) ==
    LET cls == SortedSeq(Range(y_true) \cup Range(y_pred))
    IN [t \in 1..Len(cls) |-> [p \in 1..Len(cls) |->
          Cardinality({i \in DOMAIN y_true :
                          y_true[i] = cls[t] /\ y_pred[i] = cls[p]})]]

NoCm ==
    [pc |-> "none", testY |-> << >>, predict |-> << >>, labels |-> << >>,
     y_true |-> << >>, y_pred |-> << >>, confusion_matrix |-> << >>,
     target_index |-> 0, predicted_index |-> 0, data |-> << >>, source |-> << >>]

CmIdle == cm = NoCm

\* val_data.npz and the model loaded, y_true, y_pred and the matrix computed
PlotLoad ==
    /\ mode = "plot"
    /\ cm.pc = "new"
    /\ LET yt == ArgMax(cm.testY)
           yp == ArgMax(cm.predict)
       IN cm' = [cm EXCEPT !.pc = "loop", !.y_true = yt, !.y_pred = yp,
                           !.confusion_matrix = ConfusionMatrix(yt, yp),
                           !.target_index = 0, !.predicted_index = 0]

\* one pass of the inner loop: data.append((labels[target_index],
\* labels[predicted_index], count)); a list index out of range raises
PlotAppend ==
    /\ mode = "plot"
    /\ cm.pc = "loop"
    /\ cm.target_index < Len(cm.confusion_matrix)
    /\ LET t == cm.target_index
           p == cm.predicted_index
           k == Len(cm.confusion_matrix)
       IN IF t >= Len(cm.labels) \/ p >= Len(cm.labels)
          THEN cm' = [cm EXCEPT !.pc = "index_error"]
          ELSE cm' = [cm EXCEPT
                  !.data = Append(@, <<cm.labels[t + 1], cm.labels[p + 1],
                                       cm.confusion_matrix[t + 1][p + 1]>>),
                  !.predicted_index = IF p + 1 < k THEN p + 1 ELSE 0,
                  !.target_index = IF p + 1 < k THEN t ELSE t + 1]

\* df.to_csv(header=False, index=False) into the metadata, json.dump
PlotDump ==
    /\ mode = "plot"
    /\ cm.pc = "loop"
    /\ cm.target_index >= Len(cm.confusion_matrix)
    /\ cm' = [cm EXCEPT !.pc = "done", !.source = cm.data]

InitPlot ==
    /\ mode = "plot"
    /\ SplitIdle
    /\ GenIdle
    /\ EvalIdle
    /\ \E n \in 1..MaxVal :
         \E ty \in [1..n -> OneHot], pr \in [1..n -> Scores], ls \in LabelLists :
            cm = [NoCm EXCEPT !.pc = "new", !.testY = ty, !.predict = pr, !.labels = ls]

----------------------------------------------------------------------------
(* The run-submission cell of each notebook.                               *)

\* the parameters the pipeline function declares
Params(p) ==
    {"dataset_url", "dataset_file_name", "data_dir", "model_dir", "model_name",
     "minio_url", "minio_user", "minio_pass"}
    \cup (IF p = "covid" THEN {"labels", "prep_dir", "traintest_dir"} ELSE {"prep_data_dir"})

\* the parameters declared without a default
Required(p) == IF p = "covid" THEN {"labels", "dataset_url"} ELSE {"dataset_url"}

\* the names the notebook's cells have assigned before the submission cell
Globals(p) ==
    {"DATASET_URL", "DATASET_FILE_NAME", "MODEL_NAME", "MINIO_URL", "MINIO_USER",
     "MINIO_PASS", "NAMESPACE", "client"}
    \cup (IF p = "covid" THEN {"LABELS"} ELSE {})

Lit(key) == [key |-> key, name |-> "literal"]

Ref(key, name) == [key |-> key, name |-> name]

\* the dictionary display assigned to arguments: key -> the name whose value
\* it takes, or a string literal
ArgumentsCell(p) ==
    {Ref("dataset_url", "DATASET_URL"), Ref("dataset_file_name", "DATASET_FILE_NAME"),
     Lit("data_dir"), Lit("model_dir"), Ref("model_name", "MODEL_NAME"),
     Ref("minio_url", "MINIO_URL"), Ref("minio_user", "MINIO_USER"),
     Ref("minio_pass", "MINIO_PASS")}
    \cup (IF p = "covid"
          THEN {Ref("labels", "labels"), Lit("prep_dir"), Lit("traintest_dir")}
          ELSE {Lit("prep_data_dir")})

NoSub == [pc |-> "none", notebook |-> "none", arguments |-> {}, run_id |-> "none"]

SubIdle == sub = NoSub

\* arguments = {...}: evaluating a name no cell has assigned raises NameError
BuildArguments ==
    /\ mode = "submit"
    /\ sub.pc = "cell"
    /\ IF \E a \in ArgumentsCell(sub.notebook) :
             a.name # "literal" /\ a.name \notin Globals(sub.notebook)
       THEN sub' = [sub EXCEPT !.pc = "name_error"]
       ELSE sub' = [sub EXCEPT !.pc = "built",
                               !.arguments = {a.key : a \in ArgumentsCell(sub.notebook)}]

\* client.create_run_from_pipeline_func(pipeline, arguments=arguments,
\* namespace=NAMESPACE) returns a RunPipelineResult
CreateRun ==
    /\ mode = "submit"
    /\ sub.pc = "built"
    /\ sub' = [sub EXCEPT !.pc = "submitted", !.run_id = "run_id"]

InitSubmit ==
    /\ mode = "submit"
    /\ SplitIdle
    /\ GenIdle
    /\ EvalIdle
    /\ \E p \in Pipelines : sub = [NoSub EXCEPT !.pc = "cell", !.notebook = p]

DataIdle == mode = "none" /\ SplitIdle /\ GenIdle /\ EvalIdle /\ SubIdle /\ CmIdle

PipelineIdle ==
    /\ pipeline = "none"
    /\ dataset_ok = TRUE
    /\ status = << >>
    /\ pc = << >>
    /\ raised = << >>
    /\ files = {}
    /\ wlog = {}

InitData ==
    /\ PipelineIdle
    /\ \/ InitSplit /\ GenIdle /\ EvalIdle /\ SubIdle /\ CmIdle
       \/ InitGen /\ EvalIdle /\ SubIdle /\ CmIdle
       \/ InitEval /\ SubIdle /\ CmIdle
       \/ InitSubmit /\ CmIdle
       \/ InitPlot /\ SubIdle

NextData ==
    \/ Preprocess /\ UNCHANGED <<pvars, gvars, evars, svars, cvars>>
    \/ TrainTestSplit /\ UNCHANGED <<pvars, gvars, evars, svars, cvars>>
    \/ SaveBundles /\ UNCHANGED <<pvars, gvars, evars, svars, cvars>>
    \/ Reload /\ UNCHANGED <<pvars, gvars, evars, svars, cvars>>
    \/ OnEpochEnd /\ UNCHANGED <<pvars, dvars, evars, svars, cvars>>
    \/ GetItemBegin /\ UNCHANGED <<pvars, dvars, evars, svars, cvars>>
    \/ PutMatched /\ UNCHANGED <<pvars, dvars, evars, svars, cvars>>
    \/ PutUnmatched /\ UNCHANGED <<pvars, dvars, evars, svars, cvars>>
    \/ GetItemReturn /\ UNCHANGED <<pvars, dvars, evars, svars, cvars>>
    \/ EvalLoad /\ UNCHANGED <<pvars, dvars, gvars, svars, cvars>>
    \/ EvalDraw /\ UNCHANGED <<pvars, dvars, gvars, svars, cvars>>
    \/ EvalMatched /\ UNCHANGED <<pvars, dvars, gvars, svars, cvars>>
    \/ EvalUnmatched /\ UNCHANGED <<pvars, dvars, gvars, svars, cvars>>
    \/ BuildArguments /\ UNCHANGED <<pvars, dvars, gvars, evars, cvars>>
    \/ CreateRun /\ UNCHANGED <<pvars, dvars, gvars, evars, cvars>>
    \/ PlotLoad /\ UNCHANGED <<pvars, dvars, gvars, evars, svars>>
    \/ PlotAppend /\ UNCHANGED <<pvars, dvars, gvars, evars, svars>>
    \/ PlotDump /\ UNCHANGED <<pvars, dvars, gvars, evars, svars>>

SpecData == InitData /\ [][NextData]_vars

\* A step of the loop of __getitem__ that changes its state: a position
\* filled, or the return
GetItemStep ==
    /\ PutMatched \/ PutUnmatched \/ GetItemReturn
    /\ UNCHANGED <<pvars, dvars, evars, svars, cvars>>

\* The interpreter keeps executing a call in progress, and a key that
\* random.choice can draw is eventually drawn.
SpecDataFair == InitData /\ [][NextData]_vars /\ WF_vars(GetItemStep)

----------------------------------------------------------------------------
(* One pipeline run.                                                       *)

Artifacts == {a[1] : a \in files}

\* finish a step with the exception `cause` ("none": the function returned)
Finish(s, cause) ==
    /\ status' = [status EXCEPT ![s] = Outcome(cause)]
    /\ raised' = [raised EXCEPT ![s] = cause]

\* file f is written into artifact a by step s
Put(s, a, f) ==
    /\ files' = files \cup {<<a, f>>}
    /\ wlog' = wlog \cup {[step |-> s, art |-> a, file |-> f,
                           sealed |-> (<<a, f>> \in files
                                       \/ status[a[1]] \in {"succeeded", "failed"})]}

\* The scheduler starts a task whose dependencies have all succeeded.
Start(s) ==
    /\ status[s] = "pending"
    /\ \A d \in Deps(pipeline, s) : status[d] = "succeeded"
    /\ status' = [status EXCEPT ![s] = "running"]
    /\ UNCHANGED <<pipeline, dataset_ok, pc, raised, files, wlog>>

\* A reusable component runs to completion and leaves its output.
ComponentRun(s) ==
    /\ status[s] = "running"
    /\ s \notin ComponentFuncs
    /\ Finish(s, "none")
    /\ files' = files \cup {<<<<s, o[1]>>, o[2]>> : o \in ComponentOutput(pipeline, s, dataset_ok)}
    /\ wlog' = wlog \cup {[step |-> s, art |-> <<s, o[1]>>, file |-> o[2],
                           sealed |-> (<<<<s, o[1]>>, o[2]>> \in files)]
                          : o \in ComponentOutput(pipeline, s, dataset_ok)}
    /\ UNCHANGED <<pipeline, dataset_ok, pc>>

\* The top of a component function: np.load / pd.read_csv / pd.read_pickle /
\* pickle.load / load_model of every file it names; a missing one raises.
Load(s) ==
    /\ status[s] = "running"
    /\ s \in ComponentFuncs
    /\ pc[s] = 0
    /\ IF \E r \in Reads(pipeline, s) : <<PathOf(pipeline, s, r[1]), r[2]>> \notin files
       THEN Finish(s, "missing_file") /\ pc' = pc
       ELSE pc' = [pc EXCEPT ![s] = 1] /\ UNCHANGED <<status, raised>>
    /\ UNCHANGED <<pipeline, dataset_ok, files, wlog>>

\* The next write statement of a component function.
Write(s) ==
    /\ status[s] = "running"
    /\ s \in ComponentFuncs
    /\ pc[s] \in 1..Len(Writes(pipeline, s))
    /\ IF UndefinedNameAt(pipeline, s) = pc[s]
       THEN Finish(s, "undefined_name") /\ UNCHANGED <<pc, files, wlog>>
       ELSE LET w == Writes(pipeline, s)[pc[s]] IN
            /\ Put(s, PathOf(pipeline, s, w[1]), w[2])
            /\ pc' = [pc EXCEPT ![s] = pc[s] + 1]
            /\ UNCHANGED <<status, raised>>
    /\ UNCHANGED <<pipeline, dataset_ok>>

\* The component function returns.
Return(s) ==
    /\ status[s] = "running"
    /\ s \in ComponentFuncs
    /\ pc[s] = Len(Writes(pipeline, s)) + 1
    /\ Finish(s, "none")
    /\ UNCHANGED <<pipeline, dataset_ok, pc, files, wlog>>

\* A library call inside a running step raises (shape mismatch, empty split,
\* network, out of memory).
LibraryException(s) ==
    /\ status[s] = "running"
    /\ Finish(s, "library")
    /\ UNCHANGED <<pipeline, dataset_ok, pc, files, wlog>>

Init ==
    /\ pipeline \in Pipelines
    /\ dataset_ok \in BOOLEAN
    /\ status = [s \in Steps(pipeline) |-> "pending"]
    /\ pc = [s \in Steps(pipeline) |-> 0]
    /\ raised = [s \in Steps(pipeline) |-> "none"]
    /\ files = {}
    /\ wlog = {}
    /\ DataIdle

Next ==
    \/ \E s \in Steps(pipeline) : Start(s) /\ UNCHANGED <<dvars, gvars, evars, svars, cvars>>
    \/ \E s \in Steps(pipeline) : ComponentRun(s) /\ UNCHANGED <<dvars, gvars, evars, svars, cvars>>
    \/ \E s \in Steps(pipeline) : Load(s) /\ UNCHANGED <<dvars, gvars, evars, svars, cvars>>
    \/ \E s \in Steps(pipeline) : Write(s) /\ UNCHANGED <<dvars, gvars, evars, svars, cvars>>
    \/ \E s \in Steps(pipeline) : Return(s) /\ UNCHANGED <<dvars, gvars, evars, svars, cvars>>
    \/ \E s \in Steps(pipeline) : LibraryException(s) /\ UNCHANGED <<dvars, gvars, evars, svars, cvars>>

Spec == Init /\ [][Next]_vars

\* A run on a dataset in the expected format, with no exception from outside
\* the step functions, under a scheduler that keeps running whatever can run.
InitFair == Init /\ dataset_ok

NextFair ==
    \/ \E s \in Steps(pipeline) : Start(s) /\ UNCHANGED <<dvars, gvars, evars, svars, cvars>>
    \/ \E s \in Steps(pipeline) : ComponentRun(s) /\ UNCHANGED <<dvars, gvars, evars, svars, cvars>>
    \/ \E s \in Steps(pipeline) : Load(s) /\ UNCHANGED <<dvars, gvars, evars, svars, cvars>>
    \/ \E s \in Steps(pipeline) : Write(s) /\ UNCHANGED <<dvars, gvars, evars, svars, cvars>>
    \/ \E s \in Steps(pipeline) : Return(s) /\ UNCHANGED <<dvars, gvars, evars, svars, cvars>>

SpecFair == InitFair /\ [][NextFair]_vars /\ WF_vars(NextFair)

----------------------------------------------------------------------------
(* Properties of a pipeline run.                                           *)

Started(s) == status[s] # "pending"

\* C1: in each of the four pipelines a step has started only if every step
\* whose output it takes as an input has completed, and each of those input
\* artifacts exists.
InputsExistAtStart ==
    \A s \in Steps(pipeline) :
        Started(s) =>
            \A w \in Wiring(pipeline, s) :
                /\ status[w.from] = "succeeded"
                /\ <<w.from, w.out>> \in Artifacts

\* a step that takes two outputs of other steps is running
WitnessInputsExistAtStart ==
    \E s \in Steps(pipeline) :
        status[s] = "running" /\ Cardinality(Wiring(pipeline, s)) = 2

\* C2: in the covid and fingerprint pipelines the KServe deploy step takes no
\* output of another step, and it has started only if the upload-model step
\* has completed.
DeployAfterUpload ==
    pipeline \in {"covid", "fingerprint"} =>
        /\ Wiring(pipeline, "deploy_model_with_kserve") = {}
        /\ Started("deploy_model_with_kserve") => status["upload_model"] = "succeeded"

\* the deploy step is running
WitnessDeployAfterUpload ==
    /\ pipeline \in {"covid", "fingerprint"}
    /\ status["deploy_model_with_kserve"] = "running"

ConvertAfterEvaluate ==
    pipeline \in {"covid", "fingerprint"} =>
        ( Started("convert_model_to_onnx") =>
            /\ status["evaluate_model"] = "succeeded"
            /\ pipeline = "covid" => status["plot_confusion_matrix"] = "succeeded" )

\* C4 as amended: load, preprocess, (split), train run in that order;
\* evaluate, (confusion matrix) and convert each start only after train has
\* completed, in no order among themselves; upload only after convert, deploy
\* only after upload.
StepsInGraphOrder ==
    pipeline \in {"covid", "fingerprint"} =>
        /\ Started("preprocess_data") => status["download_and_extract"] = "succeeded"
        /\ pipeline = "covid" =>
            /\ Started("traintestsplit_data") => status["preprocess_data"] = "succeeded"
            /\ Started("train_model") => status["traintestsplit_data"] = "succeeded"
            /\ Started("plot_confusion_matrix") => status["train_model"] = "succeeded"
        /\ Started("train_model") => status["preprocess_data"] = "succeeded"
        /\ Started("evaluate_model") => status["train_model"] = "succeeded"
        /\ Started("convert_model_to_onnx") => status["train_model"] = "succeeded"
        /\ Started("upload_model") => status["convert_model_to_onnx"] = "succeeded"
        /\ Started("deploy_model_with_kserve") => status["upload_model"] = "succeeded"

\* the conversion has completed and the upload is running while neither the
\* evaluation nor the confusion matrix has started
WitnessStepsInGraphOrder ==
    /\ pipeline = "covid"
    /\ status["upload_model"] = "running"
    /\ status["evaluate_model"] = "pending"
    /\ status["plot_confusion_matrix"] = "pending"

\* C5: a step whose function raised is failed, never succeeded, and no step
\* that takes an output of a failed step has started.
FailurePropagates ==
    \A s \in Steps(pipeline) :
        /\ raised[s] # "none" => status[s] = "failed"
        /\ status[s] = "failed" =>
            \A t \in Steps(pipeline) : s \in DataDeps(pipeline, t) => ~Started(t)

\* a step whose output other steps take as input has failed on an exception
WitnessFailurePropagates ==
    \E s \in Steps(pipeline) :
        /\ raised[s] \in {"missing_file", "undefined_name", "library"}
        /\ status[s] = "failed"
        /\ \E t \in Steps(pipeline) : s \in DataDeps(pipeline, t)

\* C6: when the eight input arrays load, fingerprint preprocess_data completes
\* without a fault and leaves train_data.npz, val_data.npz and real_data.npz
\* in prep_data_dir.
PreprocessLeavesBundles ==
    ( /\ pipeline = "fingerprint"
      /\ status["preprocess_data"] \in {"succeeded", "failed"}
      /\ raised["preprocess_data"] \notin {"missing_file", "library"} )
    => /\ status["preprocess_data"] = "succeeded"
       /\ {<<<<"preprocess_data", "prep_data_dir">>, f>> :
              f \in {"train_data.npz", "val_data.npz", "real_data.npz"}} \subseteq files

----------------------------------------------------------------------------
(* Properties of the data path.                                            *)

\* C7: in every batch __getitem__ returns, at every position that holds a
\* probe, the label is 0 or 1; it is 1 exactly when the reference image is
\* the real image the dictionary gives for the probe's own key; and when it
\* is 0 the key of the chosen reference image differs from the probe's key.
PairLabels ==
    (mode = "gen" /\ gpc = "returned") =>
        \A j \in 1..Len(label_batch) :
            LET match_key == Key(label_batch[j]) IN
            /\ y_batch[j] \in {0, 1}
            /\ y_batch[j] = 1 <=>
                 /\ match_key \in DOMAIN label_real_dict
                 /\ x2_batch[j] = label_real_dict[match_key]
            /\ y_batch[j] = 0 => ref_key[j] # match_key

\* a returned batch holding a matched pair and an unmatched pair
WitnessPairLabels ==
    /\ mode = "gen"
    /\ gpc = "returned"
    /\ Len(label_batch) = 2
    /\ y_batch[1] = 1
    /\ y_batch[2] = 0

\* C8: every batch fetched from train_gen and from val_gen has the blur/affine
\* augmentation applied to its probe images.
BatchesAugmented ==
    (mode = "gen" /\ gen \in {"train_gen", "val_gen"} /\ gpc = "returned") =>
        \A j \in 1..Len(x1_batch) : x1_batch[j].aug

\* The test ratio the claim names for each split.
StatedRatio ==
    IF nb = "fraud" THEN <<2, 10>>
    ELSE IF nb = "covid" THEN <<4, 10>>
    ELSE IF nb = "insurance" THEN <<3, 10>>
    ELSE <<1, 10>>

\* C9: whenever one of the four splits returns, train size plus validation
\* size is the number of input rows, for the features and for the labels, and
\* the validation size differs from ratio * n by less than 1.
SplitSizes ==
    (mode = "split" /\ parts # EmptyParts) =>
        LET n == Len(SplitX)
            d == StatedRatio[2] * Len(parts.testX) - StatedRatio[1] * n
        IN /\ Len(parts.trainX) + Len(parts.testX) = n
           /\ Len(parts.trainY) + Len(parts.testY) = Len(SplitY)
           /\ Len(parts.trainX) = Len(parts.trainY)
           /\ -StatedRatio[2] < d /\ d < StatedRatio[2]

\* a split of three rows whose validation size was rounded up
WitnessSplitSizes ==
    /\ mode = "split"
    /\ parts # EmptyParts
    /\ Len(SplitX) = 3
    /\ StatedRatio[2] * Len(parts.testX) > StatedRatio[1] * 3

\* the label the input attaches to row id, as preprocessing encodes it
Orig(id) ==
    IF nb = "covid" THEN Encode(raw[id], Range(Take(raw, Kept(raw)))) ELSE raw[id]

Aligned(xs, ys) ==
    /\ Len(xs) = Len(ys)
    /\ \A i \in 1..Len(xs) : ys[i] = Orig(xs[i])

\* C10: after preprocessing, after the split, in the arrays read back from the
\* bundles by name (data.npz) or by position (files[0], files[1]), in the
\* generator's arrays after on_epoch_end and in every batch slice, the i-th
\* label is the label the input attached to the i-th feature row.
AlignmentPreserved ==
    /\ mode = "split" =>
        /\ Aligned(X, y)
        /\ "data.npz" \in DOMAIN bundles => Aligned(SplitX, SplitY)
        /\ Aligned(parts.trainX, parts.trainY)
        /\ Aligned(parts.testX, parts.testY)
        /\ Aligned(loaded.trainX, loaded.trainY)
        /\ Aligned(loaded.testX, loaded.testY)
    /\ mode = "gen" =>
        /\ Aligned(gx, glabel)
        /\ Aligned([j \in 1..Len(x1_batch) |-> x1_batch[j].src], label_batch)

\* a batch of two probes with different labels, sliced after a shuffle that
\* reordered the samples
WitnessAlignmentPreserved ==
    /\ mode = "gen"
    /\ gpc = "returned"
    /\ Len(x1_batch) = 2
    /\ x1_batch[1].src > x1_batch[2].src
    /\ label_batch[1] # label_batch[2]

\* C11: whenever covid preprocess_data has written data.npz, its image array
\* has as many rows as the input holds files whose parent directory is covid
\* or normal, its label array has as many rows as its image array, and no
\* row comes from a file under another directory.
QualifyingRowsOnly ==
    (mode = "split" /\ nb = "covid" /\ "data.npz" \in DOMAIN bundles) =>
        LET data == NpzGet(bundles["data.npz"], "data")
            labels == NpzGet(bundles["data.npz"], "labels")
        IN /\ Len(data) = Cardinality({i \in DOMAIN raw : raw[i] \in {"covid", "normal"}})
           /\ Len(labels) = Len(data)
           /\ \A k \in DOMAIN data : raw[data[k]] \in {"covid", "normal"}

\* a directory holding a covid file, a normal file and a file under another
\* directory has been preprocessed
WitnessQualifyingRowsOnly ==
    /\ mode = "split"
    /\ nb = "covid"
    /\ "data.npz" \in DOMAIN bundles
    /\ {"covid", "normal", "other"} \subseteq Range(raw)

\* C12: once insurance preprocess_data has encoded a categorical column with
\* k distinct values, every code is an integer in 0..k-1 and rows with equal
\* values carry equal codes; after the split the rows of the validation part
\* carry codes of that same range, and a validation row and a training row
\* with equal values carry equal codes.
EncodedRange ==
    (mode = "split" /\ nb = "insurance" /\ dpc \notin {"raw", "raised"}) =>
        LET k == Cardinality(Range(col)) IN
        /\ \A i \in DOMAIN col : codes[i] \in 0..(k - 1)
        /\ \A i, j \in DOMAIN col : col[i] = col[j] => codes[i] = codes[j]
        /\ \A a \in Range(parts.testX) :
              /\ codes[a] \in 0..(k - 1)
              /\ \A b \in Range(parts.trainX) : col[a] = col[b] => codes[a] = codes[b]

\* a split whose validation row shares its value with one training row and
\* not with another
WitnessEncodedRange ==
    /\ mode = "split"
    /\ nb = "insurance"
    /\ dpc = "split"
    /\ \E a \in Range(parts.testX) : \E b, c \in Range(parts.trainX) :
          col[a] = col[b] /\ col[a] # col[c]

----------------------------------------------------------------------------
(* Properties of fingerprint evaluate_model.                               *)

\* C13: the dictionary evaluate_model builds from real_data.npz is the one
\* train_model built from that file, and looking up the key of any real label
\* gives the position of a real label with that same key.
SameDictionary ==
    (mode = "eval" /\ ev.pc # "start") =>
        /\ ev.label_real_dict = label_real_dict
        /\ \A i \in DOMAIN ev.y_real :
              LET key == Key(ev.y_real[i]) IN
              /\ key \in DOMAIN ev.label_real_dict
              /\ ev.label_real_dict[key] \in DOMAIN ev.y_real
              /\ Key(ev.y_real[ev.label_real_dict[key]]) = key

\* evaluate_model has built its dictionary from two real labels that share
\* one key
WitnessSameDictionary ==
    /\ mode = "eval"
    /\ ev.pc = "loaded"
    /\ Len(ev.y_real) = 2
    /\ Key(ev.y_real[1]) = Key(ev.y_real[2])

----------------------------------------------------------------------------
(* Properties of the run-submission cell.                                  *)

\* C15: in each notebook the submission cell builds its arguments map without
\* fault, every key of the map is a declared parameter of the pipeline
\* function, every parameter without a default has a key, and the call
\* returns a run identifier.
ArgumentsBound ==
    mode = "submit" =>
        /\ sub.pc # "name_error"
        /\ sub.pc \in {"built", "submitted"} =>
              /\ sub.arguments \subseteq Params(sub.notebook)
              /\ Required(sub.notebook) \subseteq sub.arguments
        /\ sub.pc = "submitted" => sub.run_id # "none"

----------------------------------------------------------------------------
(* Progress of a pipeline run.                                             *)

\* C16: in a fair run of any of the four pipelines on a dataset in the
\* expected format, with no fault outside the step functions, every step
\* eventually succeeds (the model is deployed in covid and fingerprint, the
\* evaluation completes in fraud and insurance).
EveryStepSucceeds ==
    <>(\A s \in Steps(pipeline) : status[s] = "succeeded")

----------------------------------------------------------------------------
(* File names across steps.                                                *)

\* the file a step reads, as <<artifact, file name>>, and the step producing
\* that artifact
ReadFile(s, r) == <<PathOf(pipeline, s, r[1]), r[2]>>

Producer(s, r) == PathOf(pipeline, s, r[1])[1]

----------------------------------------------------------------------------
(* Properties of the data path, continued.                                 *)

\* the rows of an array, with repetitions dropped
Rows(a) == {a[i] : i \in DOMAIN a}

\* C18: whenever a train/test split has returned, no input row is in both the
\* training and the validation part, every input row is in one of them, and
\* the same holds of the train_data.npz and val_data.npz written from them.
SplitPartitions ==
    (mode = "split" /\ parts # EmptyParts) =>
        /\ Rows(parts.trainX) \cap Rows(parts.testX) = {}
        /\ Rows(parts.trainX) \cup Rows(parts.testX) = Rows(SplitX)
        /\ {"train_data.npz", "val_data.npz"} \subseteq DOMAIN bundles =>
              /\ Rows(NpzAt(bundles["train_data.npz"], 0))
                   \cap Rows(NpzAt(bundles["val_data.npz"], 0)) = {}
              /\ Rows(NpzAt(bundles["train_data.npz"], 0))
                   \cup Rows(NpzAt(bundles["val_data.npz"], 0)) = Rows(SplitX)

\* the insurance split of four rows has been saved: two rows for validation,
\* two for training
WitnessSplitPartitions ==
    /\ mode = "split"
    /\ nb = "insurance"
    /\ dpc = "saved"
    /\ Len(SplitX) = 4
    /\ Len(parts.testX) = 2

----------------------------------------------------------------------------
(* Properties of fingerprint evaluate_model, continued.                    *)

\* C19: when evaluate_model has chosen its unmatched image, the key of that
\* image differs from the probe's match key, and the image is not the one
\* scored as the probe's match.
UnmatchedDiffers ==
    (mode = "eval" /\ ev.pc = "done") =>
        /\ ev.unmatch_key # Key(ev.random_label)
        /\ ev.unmatch_idx # ev.rx

\* C20: for a non-empty validation set, once random_idx is drawn it satisfies
\* 0 <= random_idx < len(x_val) and selecting the probe raises no IndexError.
RandomIdxInRange ==
    (mode = "eval" /\ Len(ev.x_val) > 0 /\ ev.pc \notin {"start", "loaded"}) =>
        /\ 0 <= ev.random_idx
        /\ ev.random_idx < Len(ev.x_val)
        /\ ev.pc # "index_error"

----------------------------------------------------------------------------
(* Properties of the DataGenerator, continued.                             *)

\* C21: every call of __getitem__ terminates: once the loop over the batch
\* has been entered, the call eventually returns (or raises), whatever the
\* reference dictionary.
GetItemTerminates ==
    (mode = "gen" /\ gpc \in {"fill", "draw"}) ~> (gpc \in {"returned", "fault"})

\* C22: a batch returned for an index with 0 <= index < len(generator) holds
\* exactly batch_size probe images, batch_size reference images and
\* batch_size labels, and every slot of x2_batch holds a real image.
FullBatch ==
    (mode = "gen" /\ gpc = "returned" /\ 0 <= index /\ index < GenLen) =>
        /\ Len(x1_batch) = batch_size
        /\ Len(label_batch) = batch_size
        /\ Len(x2_batch) = batch_size
        /\ Len(y_batch) = batch_size
        /\ \A j \in 1..batch_size : x2_batch[j] # Uninit /\ x2_batch[j] \in DOMAIN y_real

\* a batch of two pairs returned for index 0
WitnessFullBatch ==
    /\ mode = "gen"
    /\ gpc = "returned"
    /\ index = 0
    /\ GenLen = 1
    /\ batch_size = 2
    /\ Len(x2_batch) = 2

\* the samples __getitem__(k) slices out of self.x
Batch(k) == Slice(gx, k * batch_size, (k + 1) * batch_size)

\* C23: within an epoch the batches of indices 0 .. len(generator)-1 are
\* pairwise disjoint consecutive slices of the sample array: together they
\* are its first batch_size * floor(n / batch_size) samples, each in exactly
\* one batch, the last n mod batch_size samples are in no batch, and with
\* fewer than batch_size samples there is no batch; a batch fetched for such
\* an index holds exactly the samples of its slice.
BatchesDisjoint ==
    (mode = "gen" /\ gpc # "new") =>
        LET n == Len(gx)
            used == batch_size * (n \div batch_size)
        IN /\ \A k \in 0..(GenLen - 1) :
                 /\ Len(Batch(k)) = batch_size
                 /\ \A j \in 1..Len(Batch(k)) : Batch(k)[j] = gx[k * batch_size + j]
           /\ \A k, l \in 0..(GenLen - 1) : k # l => Rows(Batch(k)) \cap Rows(Batch(l)) = {}
           /\ UNION {Rows(Batch(k)) : k \in 0..(GenLen - 1)} = Rows(SubSeq(gx, 1, used))
           /\ Cardinality(UNION {Rows(Batch(k)) : k \in 0..(GenLen - 1)}) = used
           /\ \A i \in (used + 1)..n : \A k \in 0..(GenLen - 1) : gx[i] \notin Rows(Batch(k))
           /\ n < batch_size => GenLen = 0
           /\ (gpc = "returned" /\ index < GenLen) =>
                 [j \in 1..Len(x1_batch) |-> x1_batch[j].src] = Batch(index)

\* three samples in batches of two: one batch, the third sample in none
WitnessBatchesDisjoint ==
    /\ mode = "gen"
    /\ gpc = "returned"
    /\ Len(gx) = 3
    /\ batch_size = 2
    /\ index = 0

\* the four arrays a generator is built from
GenArrays == <<gx, glabel, y_real, label_real_dict>>

----------------------------------------------------------------------------
(* Properties of covid plot_confusion_matrix.                              *)

\* the classes among the true and the predicted indices
ClassesSeen == Range(cm.y_true) \cup Range(cm.y_pred)

RECURSIVE CountSum(_)
CountSum(rows) ==
    IF rows = << >> THEN 0 ELSE rows[1][3] + CountSum(Tail(rows))

\* C25: for every validation set and every model, the rows
\* plot_confusion_matrix writes are one (target label, predicted label,
\* count) row per cell of the confusion matrix, in row-major order, the row
\* of cell (t, p) carrying labels[t], labels[p] and the cell's count; the
\* counts sum to the number of validation samples; and no index into labels
\* is out of range when labels has at least as many entries as there are
\* classes among the true and predicted indices.
MatrixRows ==
    (mode = "plot" /\ cm.pc \notin {"new"}) =>
        LET k == Cardinality(ClassesSeen)
        IN /\ Len(cm.confusion_matrix) = k
           /\ \A t \in 1..k : Len(cm.confusion_matrix[t]) = k
           /\ Len(cm.labels) >= k => cm.pc # "index_error"
           /\ cm.pc = "done" =>
                /\ Len(cm.source) = k * k
                /\ \A t \in 0..(k - 1) : \A p \in 0..(k - 1) :
                      cm.source[t * k + p + 1] =
                          <<cm.labels[t + 1], cm.labels[p + 1],
                            cm.confusion_matrix[t + 1][p + 1]>>
                /\ CountSum(cm.source) = Len(cm.testY)

\* three samples, both classes seen, a wrong prediction among them, all four
\* rows written
WitnessMatrixRows ==
    /\ mode = "plot"
    /\ cm.pc = "done"
    /\ Len(cm.testY) = 3
    /\ cm.labels = <<"Covid", "Normal">>
    /\ cm.source = <<<<"Covid", "Covid", 1>>, <<"Covid", "Normal", 1>>,
                     <<"Normal", "Covid", 0>>, <<"Normal", "Normal", 1>>>>

----------------------------------------------------------------------------
(* The directory parameters of the pipeline functions.                     *)

\* values an argument of a run can take
ArgValues == {"/train/data", "/other"}

\* the arguments a with the directory parameters replaced by d
WithDirs(a, d) == [q \in DOMAIN a |-> IF q \in DOMAIN d THEN d[q] ELSE a[q]]

\* the run has been created and no step has started: the pipeline function
\* has been called, once, with the arguments of the run
Created == pipeline \in Pipelines /\ \A s \in Steps(pipeline) : status[s] = "pending"

\* C26: the parameters data_dir, prep_data_dir (prep_dir), traintest_dir and
\* model_dir have no effect on a run: whatever the other arguments are, the
\* pipeline function called with any two choices of the directory arguments
\* builds the same step graph and hands every step the same inputs.
DirsIgnored ==
    Created =>
        \A a \in [PipelineParams(pipeline) -> ArgValues] :
           \A d \in [DirParams(pipeline) -> ArgValues] :
              Graph(pipeline, a) = Graph(pipeline, WithDirs(a, d))

\* a run of the covid pipeline, whose function declares all four directory
\* parameters and hands plot_confusion_matrix both a parameter and outputs
WitnessDirsIgnored ==
    /\ Created
    /\ pipeline = "covid"
    /\ \E a \in [PipelineParams(pipeline) -> ArgValues] :
          /\ a["data_dir"] # "/train/data"
          /\ a["traintest_dir"] # "/train/data"
          /\ Graph(pipeline, a)["plot_confusion_matrix"].inputs =
                {<<"labels", "argument", a["labels"]>>,
                 <<"traintest_dir", "traintestsplit_data", "traintest_dir">>,
                 <<"model_dir", "train_model", "model_dir">>}

====
